---- MODULE Spec2Model ----
(***************************************************************************)
(* The sigma sweep of "SX5E - Base GBM Model (Sigma for Different          *)
(* Lookback).ipynb": for every lookback M in [21, 63, 252] and every       *)
(* valuation date, the annualised volatility of the log-returns of the M   *)
(* prices that precede the date.                                           *)
(*                                                                         *)
(* Numbers.  A float64 or float32 of the notebook is its IEEE value: sign, *)
(* mantissa and binary exponent, or one of the specials nan, inf, -inf.    *)
(* An operation rounds its exact result to the nearest float, ties to      *)
(* even, as the hardware does; np.log gives the float64 nearest to the     *)
(* logarithm.                                                              *)
(* Dates.  An ISO-8601 date string "yyyy-mm-dd" is the integer yyyymmdd:   *)
(* string comparison of ISO dates is integer comparison of these.          *)
(* Indices.  Python positions are 0-based; row p of a frame or array is    *)
(* element p + 1 of the sequence that models it.                           *)
(***************************************************************************)
EXTENDS Integers, Sequences, FiniteSets

VARIABLES
  S_all,          \* price frame: sequence of rows [Date, AdjClose]
  ir,             \* rate frame: sequence of rows [Date, Rate]
  dt,             \* time step, a float
  actual_dates,   \* valuation dates, a sequence of dates
  M_pos,          \* number of entries of M the outer loop has taken
  M_value,        \* outer loop variable
  sigma,          \* float32 array of the current M
  i,              \* inner loop: number of valuation dates already estimated
  date,           \* inner loop variable
  date_index,     \* position of date in S_all
  history_data,   \* prices of the window
  log_return,     \* log-returns of the window
  pc,             \* "for_M", "for_date", "body", "done", "error"
  err,            \* exception that ended the cell, "" if none
  out,            \* lines printed, one record per M
  writes,         \* positions of sigma assigned under the current M, in order
  n_est           \* estimations performed so far

vars == <<S_all, ir, dt, actual_dates, M_pos, M_value, sigma, i, date,
          date_index, history_data, log_return, pc, err, out, writes, n_est>>

inputs == <<S_all, ir, dt, actual_dates>>

(***************************************************************************)
(* Evaluation.  An operator's argument is evaluated each time the operator *)
(* uses it.  Eval1(Op, e) is Op(e) with e evaluated once, as a Python call *)
(* evaluates its arguments before the body runs; every operator on numbers *)
(* below takes its arguments this way.                                     *)
(***************************************************************************)
Eval1(Op(_), e) == CHOOSE r \in {Op(x) : x \in {e}} : TRUE

Eval2(Op(_, _), e1, e2) == CHOOSE r \in {Op(x, y) : x \in {e1}, y \in {e2}} : TRUE

(***************************************************************************)
(* Naturals below 2^61 as pairs <<h, l>> of value h * 2^30 + l, l < 2^30:  *)
(* the mantissas of the floats and the intermediate results of their       *)
(* operations.                                                             *)
(***************************************************************************)
B30 == 1073741824

ILen5(x, n) == IF x >= 2 THEN n + 2 ELSE n + x
ILen4(x, n) == IF x >= 4 THEN ILen5(x \div 4, n + 2) ELSE ILen5(x, n)
ILen3(x, n) == IF x >= 16 THEN ILen4(x \div 16, n + 4) ELSE ILen4(x, n)
ILen2(x, n) == IF x >= 256 THEN ILen3(x \div 256, n + 8) ELSE ILen3(x, n)

\* the number of bits of 0 <= x < 2^31
ILen(x) == IF x >= 65536 THEN ILen2(x \div 65536, 16) ELSE ILen2(x, 0)

\* the number of bits of X
PLen(X) == IF X[1] > 0 THEN 30 + ILen(X[1]) ELSE ILen(X[2])

PAdd(X, Y) == <<X[1] + Y[1] + ((X[2] + Y[2]) \div B30), (X[2] + Y[2]) % B30>>

\* X - Y, for X >= Y
PSub(X, Y) ==
  IF X[2] >= Y[2] THEN <<X[1] - Y[1], X[2] - Y[2]>>
  ELSE <<X[1] - Y[1] - 1, X[2] - Y[2] + B30>>

PLess(X, Y) == X[1] < Y[1] \/ (X[1] = Y[1] /\ X[2] < Y[2])

\* X * 2^z, where it is below 2^61
PShl(X, z) ==
  IF z = 0 THEN X
  ELSE IF z < 30
  THEN <<X[1] * 2^z + (X[2] \div 2^(30 - z)), (X[2] % 2^(30 - z)) * 2^z>>
  ELSE <<X[2] * 2^(z - 30), 0>>

\* X \div 2^d
PShr(X, d) ==
  IF d = 0 THEN X
  ELSE IF d < 30
  THEN <<X[1] \div 2^d, (X[1] % 2^d) * 2^(30 - d) + (X[2] \div 2^d)>>
  ELSE IF d < 60 THEN <<0, X[1] \div 2^(d - 30)>>
  ELSE <<0, 0>>

\* X is not a multiple of 2^d
PLost(X, d) ==
  IF d = 0 THEN FALSE
  ELSE IF d < 30 THEN X[2] % 2^d # 0
  ELSE IF d < 60 THEN X[2] # 0 \/ X[1] % 2^(d - 30) # 0
  ELSE X # <<0, 0>>

\* X with its last bit set if sticky: what is lost stays visible to the rounding
PJam(X, sticky) == IF sticky /\ X[2] % 2 = 0 THEN <<X[1], X[2] + 1>> ELSE X

\* X \div 2^d, the last bit set if bits were lost
PShrSticky(X0, d) == Eval1(LAMBDA X : PJam(PShr(X, d), PLost(X, d)), X0)

(***************************************************************************)
(* IEEE floats.  [k, neg, h, l, e]: k = "fin" is (-1)^neg * m * 2^e with   *)
(* m = h * 2^30 + l, 2^(p-1) <= m < 2^p for the precision p of the type    *)
(* (53 bits for float64, 24 for float32), or m = 0 and e = 0 for zero; k = *)
(* "nan", "pinf", "ninf" are the specials.  Every operation gives the      *)
(* exact result rounded to the nearest float, ties to the even mantissa.   *)
(* The sign of a zero and the limits of the exponent are left out: the     *)
(* prices are integers below 2^31, and no value the sweep computes from    *)
(* them is near the limits or depends on the sign of a zero.               *)
(***************************************************************************)
P64 == 53
P32 == 24

MkFin(neg, X, e) == [k |-> "fin", neg |-> neg, h |-> X[1], l |-> X[2], e |-> e]
Zero == MkFin(FALSE, <<0, 0>>, 0)
Special(kind) == [k |-> kind, neg |-> kind = "ninf", h |-> 0, l |-> 0, e |-> 0]
NaN == Special("nan")
PInf == Special("pinf")
NInf == Special("ninf")

IsFin(x) == x.k = "fin"
IsZero(x) == x.k = "fin" /\ x.h = 0 /\ x.l = 0
Mant(x) == <<x.h, x.l>>

\* the mantissa q of p bits, one added if up
RoundUp(p, neg, q, e, up) ==
  Eval1(LAMBDA m : IF PLen(m) > p THEN MkFin(neg, PShr(m, 1), e + 1)
                   ELSE MkFin(neg, m, e),
        IF up THEN PAdd(q, <<0, 1>>) ELSE q)

\* X of PLen(X) = p + k bits, 0 < k <= 30, rounded to p bits
RoundOff(p, neg, X, e, sticky, k) ==
  Eval2(LAMBDA q, rem :
          RoundUp(p, neg, q, e + k,
                  \/ rem > 2^(k - 1)
                  \/ rem = 2^(k - 1) /\ (sticky \/ q[2] % 2 = 1)),
        PShr(X, k), X[2] % 2^k)

\* the float of precision p nearest to X * 2^e, or to a little more than it
\* if sticky
RoundTo(p, neg, X0, e, sticky) ==
  Eval1(LAMBDA X :
          IF X = <<0, 0>> THEN Zero
          ELSE IF PLen(X) <= p THEN MkFin(neg, PShl(X, p - PLen(X)), e - (p - PLen(X)))
          ELSE RoundOff(p, neg, X, e, sticky, PLen(X) - p),
        X0)

\* float(n) of an integer 0 <= n < 2^30
FromInt(p, n) == RoundTo(p, FALSE, <<0, n>>, 0, FALSE)

\* |x| < |y|, for numbers of one type that are not zero
MagLess(x, y) == x.e < y.e \/ (x.e = y.e /\ PLess(Mant(x), Mant(y)))

\* |a| + |b|, or |a| - |b| if sub, for |a| >= |b| > 0, with the sign neg:
\* three more bits are kept, the last of them sticky
AddAligned(p, neg, a, b, sub) ==
  Eval2(LAMBDA A, B : RoundTo(p, neg, IF sub THEN PSub(A, B) ELSE PAdd(A, B),
                              a.e - 3, FALSE),
        PShl(Mant(a), 3), PShrSticky(PShl(Mant(b), 3), a.e - b.e))

FNeg(x0) ==
  Eval1(LAMBDA x : CASE x.k = "fin" -> [x EXCEPT !.neg = ~@ /\ ~IsZero(x)]
                     [] x.k = "pinf" -> NInf
                     [] x.k = "ninf" -> PInf
                     [] OTHER -> NaN,
        x0)

\* x + y
FAdd(p, x0, y0) ==
  Eval2(LAMBDA x, y :
          CASE x.k = "nan" \/ y.k = "nan" -> NaN
            [] x.k = "fin" /\ y.k = "fin" ->
                 IF IsZero(x) THEN y
                 ELSE IF IsZero(y) THEN x
                 ELSE IF MagLess(x, y)
                 THEN AddAligned(p, y.neg, y, x, x.neg # y.neg)
                 ELSE AddAligned(p, x.neg, x, y, x.neg # y.neg)
            [] x.k = "fin" -> y
            [] y.k = "fin" -> x
            [] x.k = y.k -> x
            [] OTHER -> NaN,
        x0, y0)

\* x - y
FSub(p, x, y) == FAdd(p, x, FNeg(y))

L14 == 16384

\* the 53-bit mantissa of x in four digits of base 2^14, the lowest first
Digits14(x) ==
  <<x.l % L14, (x.l \div L14) % L14,
    (x.l \div (L14 * L14)) + (x.h % 4096) * 4, x.h \div 4096>>

\* the sums of the digit products of a * b by weight: none reaches 2^31
Columns(a, b) ==
  <<a[1] * b[1],
    a[1] * b[2] + a[2] * b[1],
    a[1] * b[3] + a[2] * b[2] + a[3] * b[1],
    a[1] * b[4] + a[2] * b[3] + a[3] * b[2] + a[4] * b[1],
    a[2] * b[4] + a[3] * b[3] + a[4] * b[2],
    a[3] * b[4] + a[4] * b[3],
    a[4] * b[4]>>

RECURSIVE Carried(_, _, _)
\* the digits of base 2^14 of the number with columns cs[j ..], c carried in
Carried(cs, j, c) ==
  IF j > Len(cs) THEN <<c>>
  ELSE Eval1(LAMBDA s : <<s % L14>> \o Carried(cs, j + 1, s \div L14), cs[j] + c)

\* the product d, eight digits of base 2^14, over 2^49: its 57 upper bits,
\* the last bit set if the lower ones are not all 0
UpperBits(d) ==
  PJam(<<d[8] * 2^19 + d[7] * 32 + (d[6] \div 512),
         (d[6] % 512) * 2^21 + d[5] * 128 + (d[4] \div 128)>>,
       d[4] % 128 # 0 \/ d[3] # 0 \/ d[2] # 0 \/ d[1] # 0)

\* x * y in float64
FMul(x0, y0) ==
  Eval2(LAMBDA x, y :
          CASE x.k = "nan" \/ y.k = "nan" -> NaN
            [] x.k = "fin" /\ y.k = "fin" ->
                 IF IsZero(x) \/ IsZero(y) THEN Zero
                 ELSE Eval1(LAMBDA d : RoundTo(P64, x.neg # y.neg, UpperBits(d),
                                               x.e + y.e + 49, FALSE),
                            Eval1(LAMBDA cs : Carried(cs, 1, 0),
                                  Columns(Digits14(x), Digits14(y))))
            [] IsZero(x) \/ IsZero(y) -> NaN
            [] x.neg = y.neg -> PInf
            [] OTHER -> NInf,
        x0, y0)

\* one bit of the quotient: s = <<R, Q>>, the rest R < 2 D and the quotient Q
DivStep(D, s0) ==
  Eval1(LAMBDA s : IF PLess(s[1], D)
                   THEN <<PShl(s[1], 1), PShl(s[2], 1)>>
                   ELSE <<PShl(PSub(s[1], D), 1), PAdd(PShl(s[2], 1), <<0, 1>>)>>,
        s0)

RECURSIVE DivLoop(_, _, _)
\* 8 n more bits of the quotient
DivLoop(D, s0, n) ==
  Eval1(LAMBDA s :
          IF n = 0 THEN s
          ELSE DivLoop(D, DivStep(D, DivStep(D, DivStep(D, DivStep(D,
                          DivStep(D, DivStep(D, DivStep(D, DivStep(D, s)))))))),
                       n - 1),
        s0)

\* the bits of the quotient the rounding to p bits is made from: 56 and 32
DivBits(p) == 8 * ((p + 10) \div 8)

\* the quotient s[2] with the sign neg; sticky if the division leaves a rest
Quotient(p, neg, s, e) == RoundTo(p, neg, s[2], e, s[1] # <<0, 0>>)

\* x / y: x / 0 is inf or nan, never an exception
FDiv(p, x0, y0) ==
  Eval2(LAMBDA x, y :
          CASE x.k = "nan" \/ y.k = "nan" -> NaN
            [] x.k = "fin" /\ y.k = "fin" /\ ~IsZero(y) ->
                 IF IsZero(x) THEN Zero
                 ELSE Quotient(p, x.neg # y.neg,
                               DivLoop(Mant(y), <<Mant(x), <<0, 0>>>>,
                                       DivBits(p) \div 8),
                               x.e - y.e - (DivBits(p) - 1))
            [] x.k = "fin" /\ y.k = "fin" ->
                 IF IsZero(x) THEN NaN ELSE IF x.neg THEN NInf ELSE PInf
            [] x.k = "fin" -> Zero
            [] y.k = "fin" -> IF x.neg = y.neg THEN PInf ELSE NInf
            [] OTHER -> NaN,
        x0, y0)

\* a / b of two Python integers, 0 <= a and 0 < b: a float64
IntTrueDiv(a, b) == FDiv(P64, FromInt(P64, a), FromInt(P64, b))

\* the two bits of weight 4^w of the mantissa mant of 54 bits, 0 below it
BitPair(mant, w) ==
  IF w < 0 THEN 0
  ELSE IF w >= 15 THEN (mant[1] \div 2^(2 * w - 30)) % 4
  ELSE (mant[2] \div 2^(2 * w)) % 4

\* one bit of the root: s = <<r, q, w>>, the root q of the bits above 4^w
\* and what they leave, r
SqrtTry(r4, c, q, w) ==
  IF PLess(r4, c) THEN <<r4, PShl(q, 1), w - 1>>
  ELSE <<PSub(r4, c), PAdd(PShl(q, 1), <<0, 1>>), w - 1>>

SqrtStep(mant, s0) ==
  Eval1(LAMBDA s :
          Eval2(LAMBDA r4, c : SqrtTry(r4, c, s[2], s[3]),
                PAdd(PShl(s[1], 2), <<0, BitPair(mant, s[3])>>),
                PAdd(PShl(s[2], 2), <<0, 1>>)),
        s0)

RECURSIVE SqrtLoop(_, _, _)
\* 8 n more bits of the root
SqrtLoop(mant, s0, n) ==
  Eval1(LAMBDA s :
          IF n = 0 THEN s
          ELSE SqrtLoop(mant, SqrtStep(mant, SqrtStep(mant, SqrtStep(mant,
                 SqrtStep(mant, SqrtStep(mant, SqrtStep(mant, SqrtStep(mant,
                 SqrtStep(mant, s)))))))),
                        n - 1),
        s0)

\* the root of mant * 4^29, 56 bits, for a mantissa with an even exponent e
SqrtOf(mant, e) ==
  Eval1(LAMBDA s : RoundTo(P64, FALSE, s[2], (e \div 2) - 29, s[1] # <<0, 0>>),
        SqrtLoop(mant, <<<<0, 0>>, <<0, 0>>, 26>>, 7))

\* np.sqrt in float64
np_sqrt(x0) ==
  Eval1(LAMBDA x :
          CASE x.k = "fin" /\ IsZero(x) -> Zero
            [] x.k = "fin" /\ ~x.neg ->
                 IF x.e % 2 = 0 THEN SqrtOf(Mant(x), x.e)
                 ELSE SqrtOf(PShl(Mant(x), 1), x.e - 1)
            [] x.k = "pinf" -> PInf
            [] OTHER -> NaN,
        x0)

\* the float64 nearest to ln(p), as <<h, l, e>>, p = 1 .. 1024
LnTable ==
  <<
     <<0, 0, 0>>, <<5814539, 1056586223, -53>>, <<4607913, 984417035, -52>>,
     <<5814539, 1056586223, -52>>, <<6750471, 938315059, -52>>, <<7515183, 975839234, -52>>,
     <<8161738, 775051863, -52>>, <<4360904, 1060875123, -51>>, <<4607913, 984417035, -51>>,
     <<4828870, 1001739542, -51>>, <<5028750, 931084108, -51>>, <<5211226, 1020501629, -51>>,
     <<5379088, 724667473, -51>>, <<5534504, 383237031, -51>>, <<5679192, 961366047, -51>>,
     <<5814539, 1056586223, -51>>, <<5941679, 33193850, -51>>, <<6061548, 980128134, -51>>,
     <<6174936, 100971308, -51>>, <<6282505, 997450641, -51>>, <<6384826, 342863537, -51>>,
     <<6482385, 926795208, -51>>, <<6575607, 1037153264, -51>>, <<6664861, 1016212729, -51>>,
     <<6750471, 938315059, -51>>, <<6832723, 720378573, -51>>, <<6911870, 939754640, -51>>,
     <<6988139, 378948131, -51>>, <<7061731, 198049311, -51>>, <<7132827, 957077147, -51>>,
     <<7201593, 143731546, -51>>, <<7268174, 1052297323, -51>>, <<7332707, 886421713, -51>>,
     <<7395314, 28904950, -51>>, <<7456105, 319812549, -51>>, <<7515183, 975839234, -51>>,
     <<7572643, 775604157, -51>>, <<7628571, 96682408, -51>>, <<7683045, 680005078, -51>>,
     <<7736140, 993161741, -51>>, <<7787925, 93236302, -51>>, <<7838461, 338574637, -51>>,
     <<7887808, 370469905, -51>>, <<7936020, 922506307, -51>>, <<7983149, 916703652, -51>>,
     <<8029242, 1032864364, -51>>, <<8074344, 798027958, -51>>, <<8118496, 1011923829, -51>>,
     <<8161738, 775051863, -51>>, <<8204106, 934026159, -51>>, <<8245635, 1062273279, -51>>,
     <<8286358, 716089673, -51>>, <<8326305, 673332395, -51>>, <<8365505, 935465740, -51>>,
     <<4201993, 431685363, -50>>, <<4220887, 187329616, -50>>, <<4239446, 565025369, -50>>,
     <<4257683, 96880205, -50>>, <<4275607, 969353593, -50>>, <<4293231, 476394123, -50>>,
     <<4310563, 722627597, -50>>, <<4327614, 69721323, -50>>, <<4344391, 685971483, -50>>,
     <<4360904, 1060875123, -50>>, <<4377162, 328477045, -50>>, <<4393171, 441066406, -50>>,
     <<4408939, 824709421, -50>>, <<4424474, 549178937, -50>>, <<4439782, 496245435, -50>>,
     <<4454870, 157761825, -50>>, <<4469743, 874829513, -50>>, <<4484409, 485775167, -50>>,
     <<4498872, 857878502, -50>>, <<4513139, 385657629, -50>>, <<4527214, 446826332, -50>>,
     <<4541103, 46196754, -50>>, <<4554810, 122434108, -50>>, <<4568340, 337858089, -50>>,
     <<4581698, 162509171, -50>>, <<4594887, 1031307332, -50>>, <<4607913, 984417035, -50>>,
     <<4620780, 44473701, -50>>, <<4633490, 224584834, -50>>, <<4646048, 167142868, -50>>,
     <<4658457, 519611146, -50>>, <<4670721, 719961414, -50>>, <<4682844, 76693458, -50>>,
     <<4694827, 995979616, -50>>, <<4706676, 397314806, -50>>, <<4718392, 456207376, -50>>,
     <<4729979, 19225790, -50>>, <<4741438, 1051158644, -50>>, <<4752775, 49534576, -50>>,
     <<4763989, 933740441, -50>>, <<4775086, 16628963, -50>>, <<4786065, 1040688376, -50>>,
     <<4796932, 149244920, -50>>, <<4807686, 922252394, -50>>, <<4818332, 420879659, -50>>,
     <<4828870, 1001739542, -50>>, <<4839304, 656128561, -50>>, <<4849635, 528992189, -50>>,
     <<4859865, 626594796, -50>>, <<4869996, 892771298, -50>>, <<4880031, 137575077, -50>>,
     <<4889970, 334521747, -50>>, <<4899816, 180307803, -50>>, <<4909570, 465588420, -50>>,
     <<4919234, 855725318, -50>>, <<4928810, 966411825, -50>>, <<4938300, 365470881, -50>>,
     <<4947704, 722056077, -50>>, <<4957025, 439583580, -50>>, <<4966264, 26010007, -50>>,
     <<4975421, 1021590853, -50>>, <<4984500, 631606667, -50>>, <<4993501, 317671342, -50>>,
     <<5002425, 430338231, -50>>, <<5011274, 210359891, -50>>, <<5020048, 1011120585, -50>>,
     <<5028750, 931084108, -50>>, <<5037381, 183612235, -50>>, <<5045941, 24286953, -50>>,
     <<5054431, 604447785, -50>>, <<5062853, 972171751, -50>>, <<5071209, 146956121, -50>>,
     <<5079498, 341847618, -50>>, <<5087722, 521859761, -50>>, <<5095882, 699774667, -50>>,
     <<5103979, 863203507, -50>>, <<5112014, 975358050, -50>>, <<5119988, 975792868, -50>>,
     <<5127902, 781119532, -50>>, <<5135757, 285694059, -50>>, <<5143553, 436020629, -50>>,
     <<5151292, 10163575, -50>>, <<5158973, 987070621, -50>>, <<5166599, 1030971897, -50>>,
     <<5174170, 1008143122, -50>>, <<5181687, 692488286, -50>>, <<5189150, 913553694, -50>>,
     <<5196561, 335814151, -50>>, <<5203919, 827875790, -50>>, <<5211226, 1020501629, -50>>,
     <<5218483, 602038876, -50>>, <<5225690, 318863140, -50>>, <<5232847, 902065646, -50>>,
     <<5239956, 920384090, -50>>, <<5247018, 1828653, -50>>, <<5254031, 981552794, -50>>,
     <<5260999, 238551123, -50>>, <<5267920, 580923216, -50>>, <<5274796, 508805442, -50>>,
     <<5281627, 657160570, -50>>, <<5288414, 574879994, -50>>, <<5295157, 872584551, -50>>,
     <<5301858, 1706076, -50>>, <<5308515, 697235633, -50>>, <<5315131, 314335000, -50>>,
     <<5321705, 492291970, -50>>, <<5328238, 712339598, -50>>, <<5334731, 445401672, -50>>,
     <<5341184, 226088315, -50>>, <<5347597, 579200163, -50>>, <<5353971, 946225077, -50>>,
     <<5360307, 759311296, -50>>, <<5366605, 515233631, -50>>, <<5372865, 701869330, -50>>,
     <<5379088, 724667473, -50>>, <<5385274, 1054337608, -50>>, <<5391425, 5823260, -50>>,
     <<5397539, 180946052, -50>>, <<5403617, 952400519, -50>>, <<5409661, 611419920, -50>>,
     <<5415670, 662920496, -50>>, <<5421645, 456964253, -50>>, <<5427586, 410151483, -50>>,
     <<5433493, 932041268, -50>>, <<5439368, 277825624, -50>>, <<5445209, 990933838, -50>>,
     <<5451019, 239505195, -50>>, <<5456796, 553952252, -50>>, <<5462542, 163425488, -50>>,
     <<5468256, 512143282, -50>>, <<5473939, 890816299, -50>>, <<5479592, 584261038, -50>>,
     <<5485214, 1019009891, -50>>, <<5490807, 394725079, -50>>, <<5496370, 126769374, -50>>,
     <<5501903, 551355425, -50>>, <<5507407, 925659322, -50>>, <<5512883, 501673014, -50>>,
     <<5518330, 673795682, -50>>, <<5523749, 683971382, -50>>, <<5529140, 843016760, -50>>,
     <<5534504, 383237031, -50>>, <<5539840, 679748545, -50>>, <<5545149, 955606121, -50>>,
     <<5550432, 429378950, -50>>, <<5555688, 462724179, -50>>, <<5560918, 265507312, -50>>,
     <<5566122, 117113199, -50>>, <<5571300, 292787621, -50>>, <<5576452, 1063718651, -50>>,
     <<5581580, 549632372, -50>>, <<5586683, 87579434, -50>>, <<5591760, 1010785149, -50>>,
     <<5596814, 353755936, -50>>, <<5601843, 516027708, -50>>, <<5606848, 672301539, -50>>,
     <<5611829, 1067479547, -50>>, <<5616787, 869248209, -50>>, <<5621722, 315627404, -50>>,
     <<5626633, 715034265, -50>>, <<5631522, 151378261, -50>>, <<5636387, 1000314882, -50>>,
     <<5641231, 265628739, -50>>, <<5646052, 316709956, -50>>, <<5650851, 298676393, -50>>,
     <<5655628, 427396463, -50>>, <<5660383, 915801573, -50>>, <<5665117, 900197343, -50>>,
     <<5669830, 587799094, -50>>, <<5674522, 183040715, -50>>, <<5679192, 961366047, -50>>,
     <<5683842, 974310042, -50>>, <<5688472, 418255275, -50>>, <<5693081, 560736469, -50>>,
     <<5697670, 519260355, -50>>, <<5702239, 482575491, -50>>, <<5706788, 636973822, -50>>,
     <<5711318, 92591305, -50>>, <<5715828, 104674911, -50>>, <<5720318, 852397804, -50>>,
     <<5724790, 365157288, -50>>, <<5729242, 965064693, -50>>, <<5733676, 677048886, -50>>,
     <<5738091, 745086353, -50>>, <<5742488, 263528602, -50>>, <<5746866, 472105223, -50>>,
     <<5751226, 460991614, -50>>, <<5755568, 392068746, -50>>, <<5759892, 425214925, -50>>,
     <<5764198, 718338697, -50>>, <<5768487, 353669241, -50>>, <<5772758, 559013415, -50>>,
     <<5777012, 412819391, -50>>, <<5781249, 65432423, -50>>, <<5785468, 739124548, -50>>,
     <<5789671, 433156388, -50>>, <<5793857, 366256610, -50>>, <<5798026, 681682583, -50>>,
     <<5802179, 447247774, -50>>, <<5806315, 876574080, -50>>, <<5810435, 1034150860, -50>>,
     <<5814539, 1056586223, -50>>, <<5818628, 5148689, -50>>, <<5822700, 160759305, -50>>,
     <<5826756, 581565044, -50>>, <<5830797, 324188145, -50>>, <<5834822, 591233173, -50>>,
     <<5838832, 436342688, -50>>, <<5842826, 1059187073, -50>>, <<5846806, 436777506, -50>>,
     <<5850770, 839680418, -50>>, <<5854720, 242104170, -50>>, <<5858654, 911854521, -50>>,
     <<5862574, 820420521, -50>>, <<5866480, 85445559, -50>>, <<5870370, 970747091, -50>>,
     <<5874247, 370143238, -50>>, <<5878109, 544890037, -50>>, <<5881957, 533765505, -50>>,
     <<5885791, 448055259, -50>>, <<5889611, 397828672, -50>>, <<5893417, 491956534, -50>>,
     <<5897209, 838128395, -50>>, <<5900988, 469127760, -50>>, <<5904753, 564074290, -50>>,
     <<5908505, 153472924, -50>>, <<5912243, 414197306, -50>>, <<5915968, 374538332, -50>>,
     <<5919680, 135445182, -50>>, <<5923378, 870540613, -50>>, <<5927064, 531168678, -50>>,
     <<5930737, 288860428, -50>>, <<5934397, 240381117, -50>>, <<5938044, 481486267, -50>>,
     <<5941679, 33193850, -50>>, <<5945301, 63023514, -50>>, <<5948910, 663784635, -50>>,
     <<5952507, 853589602, -50>>, <<5956092, 723350533, -50>>, <<5959665, 363050284, -50>>,
     <<5963225, 935496902, -50>>, <<5966774, 381368728, -50>>, <<5970310, 935419374, -50>>,
     <<5973835, 536555115, -50>>, <<5977348, 344039457, -50>>, <<5980849, 442537432, -50>>,
     <<5984338, 915868830, -50>>, <<5987816, 773277585, -50>>, <<5991283, 96926451, -50>>,
     <<5994738, 41907854, -50>>, <<5998181, 688770906, -50>>, <<6001613, 1043531904, -50>>,
     <<6005035, 111426476, -50>>, <<6008445, 118145207, -50>>, <<6011844, 67392687, -50>>,
     <<6015232, 35864632, -50>>, <<6018609, 99515737, -50>>, <<6021975, 333569189, -50>>,
     <<6025330, 812526027, -50>>, <<6028675, 536432538, -50>>, <<6032009, 652114792, -50>>,
     <<6035333, 158220271, -50>>, <<6038646, 200193948, -50>>, <<6041948, 849061462, -50>>,
     <<6045241, 27695797, -50>>, <<6048522, 1027018432, -50>>, <<6051794, 694847518, -50>>,
     <<6055056, 173324236, -50>>, <<6058307, 603953491, -50>>, <<6061548, 980128134, -50>>,
     <<6064780, 294620354, -50>>, <<6068001, 760814777, -50>>, <<6071213, 296523209, -50>>,
     <<6074415, 40184801, -50>>, <<6077607, 55906033, -50>>, <<6080789, 407209715, -50>>,
     <<6083962, 83300224, -50>>, <<6087125, 220295933, -50>>, <<6090278, 880010596, -50>>,
     <<6093422, 1049960093, -50>>, <<6096557, 790852730, -50>>, <<6099683, 162853968, -50>>,
     <<6102799, 299334694, -50>>, <<6105906, 185652111, -50>>, <<6109003, 954123294, -50>>,
     <<6112092, 515322246, -50>>, <<6115172, 536915, -50>>, <<6118242, 540549721, -50>>,
     <<6121304, 44417985, -50>>, <<6124356, 715672514, -50>>, <<6127400, 462388744, -50>>,
     <<6130435, 413385157, -50>>, <<6133461, 623261557, -50>>, <<6136479, 72404558, -50>>,
     <<6139487, 961960288, -50>>, <<6142488, 123905133, -50>>, <<6145479, 832211056, -50>>,
     <<6148462, 991690715, -50>>, <<6151437, 654195340, -50>>, <<6154403, 944877945, -50>>,
     <<6157361, 840972822, -50>>, <<6160311, 393025906, -50>>, <<6163252, 724899605, -50>>,
     <<6166185, 812552086, -50>>, <<6169110, 705267437, -50>>, <<6172027, 451918476, -50>>,
     <<6174936, 100971308, -50>>, <<6177836, 774231657, -50>>, <<6180729, 371881998, -50>>,
     <<6183614, 14936890, -50>>, <<6186490, 824021811, -50>>, <<6189359, 698151949, -50>>,
     <<6192220, 757187347, -50>>, <<6195073, 1046869744, -50>>, <<6197919, 538826668, -50>>,
     <<6200757, 351800937, -50>>, <<6203587, 530429163, -50>>, <<6206410, 45245675, -50>>,
     <<6209225, 13911865, -50>>, <<6212032, 479994529, -50>>, <<6214832, 412969641, -50>>,
     <<6217624, 929451541, -50>>, <<6220409, 998229304, -50>>, <<6223187, 661495836, -50>>,
     <<6225957, 1034851443, -50>>, <<6228721, 12340063, -50>>, <<6231476, 856387333, -50>>,
     <<6234225, 386643960, -50>>, <<6236966, 791149173, -50>>, <<6239700, 1036399476, -50>>,
     <<6242428, 88577417, -50>>, <<6245148, 134780320, -50>>, <<6247861, 140572558, -50>>,
     <<6250567, 144956020, -50>>, <<6253266, 186631421, -50>>, <<6255958, 304001398, -50>>,
     <<6258643, 535173557, -50>>, <<6261321, 917963493, -50>>, <<6263993, 416155941, -50>>,
     <<6266658, 140733183, -50>>, <<6269316, 128652480, -50>>, <<6271967, 416590759, -50>>,
     <<6274611, 1040947442, -50>>, <<6277249, 964105412, -50>>, <<6279881, 221917423, -50>>,
     <<6282505, 997450641, -50>>, <<6285124, 104796572, -50>>, <<6287735, 800233774, -50>>,
     <<6290340, 971070421, -50>>, <<6292939, 651839661, -50>>, <<6295531, 950560343, -50>>,
     <<6298117, 827514083, -50>>, <<6300697, 316473220, -50>>, <<6303270, 524703289, -50>>,
     <<6305837, 411739979, -50>>, <<6308398, 10617010, -50>>, <<6310952, 427868511, -50>>,
     <<6313500, 622305896, -50>>, <<6316042, 626245647, -50>>, <<6318578, 471769787, -50>>,
     <<6321108, 190728142, -50>>, <<6323631, 888482398, -50>>, <<6326149, 448941013, -50>>,
     <<6328660, 1050754170, -50>>, <<6331166, 577381339, -50>>, <<6333666, 133286177, -50>>,
     <<6336159, 822713158, -50>>, <<6338647, 528464185, -50>>, <<6341129, 354351584, -50>>,
     <<6343605, 330232847, -50>>, <<6346075, 485754455, -50>>, <<6348539, 850353866, -50>>,
     <<6350998, 379519651, -50>>, <<6353451, 176018903, -50>>, <<6355898, 268673681, -50>>,
     <<6358339, 686104723, -50>>, <<6360775, 382991497, -50>>, <<6363205, 461299520, -50>>,
     <<6365629, 949056710, -50>>, <<6368048, 800355201, -50>>, <<6370462, 42836767, -50>>,
     <<6372869, 851436418, -50>>, <<6375272, 32191374, -50>>, <<6377668, 833402855, -50>>,
     <<6380060, 60735896, -50>>, <<6382445, 962122924, -50>>, <<6384826, 342863537, -50>>,
     <<6387201, 376786211, -50>>, <<6389571, 16315344, -50>>, <<6391935, 361181981, -50>>,
     <<6394294, 363458115, -50>>, <<6396648, 48783732, -50>>, <<6398996, 516368368, -50>>,
     <<6401339, 717767177, -50>>, <<6403677, 678107929, -50>>, <<6406010, 422350685, -50>>,
     <<6408337, 1049031117, -50>>, <<6410660, 435294680, -50>>, <<6412977, 753090838, -50>>,
     <<6415289, 952981737, -50>>, <<6417596, 1059110923, -50>>, <<6419899, 21721107, -50>>,
     <<6422196, 12122848, -50>>, <<6424487, 1053986817, -50>>, <<6426774, 1023345157, -50>>,
     <<6429056, 1017301953, -50>>, <<6431333, 1059067267, -50>>, <<6433606, 97958460, -50>>,
     <<6435873, 304368792, -50>>, <<6438135, 627317767, -50>>, <<6440393, 15677884, -50>>,
     <<6442645, 639401373, -50>>, <<6444893, 373328674, -50>>, <<6447136, 313382442, -50>>,
     <<6449374, 481601475, -50>>, <<6451607, 899883750, -50>>, <<6453836, 516245791, -50>>,
     <<6456060, 426049330, -50>>, <<6458279, 650777006, -50>>, <<6460494, 138033524, -50>>,
     <<6462703, 1056514096, -50>>, <<6464909, 206070991, -50>>, <<6467109, 828874715, -50>>,
     <<6469305, 798255064, -50>>, <<6471497, 134894988, -50>>, <<6473683, 1006831685, -50>>,
     <<6475866, 213264903, -50>>, <<6478043, 995718076, -50>>, <<6480217, 153137488, -50>>,
     <<6482385, 926795208, -50>>, <<6484550, 115388229, -50>>, <<6486709, 959941387, -50>>,
     <<6488865, 258906480, -50>>, <<6491016, 179323335, -50>>, <<6493162, 740628030, -50>>,
     <<6495304, 888395702, -50>>, <<6497442, 641825167, -50>>, <<6499576, 19998053, -50>>,
     <<6501705, 115621580, -50>>, <<6503829, 947545853, -50>>, <<6505950, 387022968, -50>>,
     <<6508066, 600158885, -50>>, <<6510178, 531721567, -50>>, <<6512286, 200109186, -50>>,
     <<6514389, 697351017, -50>>, <<6516488, 967882850, -50>>, <<6518583, 1029773345, -50>>,
     <<6520674, 900983072, -50>>, <<6522761, 599365375, -50>>, <<6524844, 142667221, -50>>,
     <<6526922, 622271870, -50>>, <<6528996, 981974236, -50>>, <<6531067, 165465364, -50>>,
     <<6533133, 337558718, -50>>, <<6535195, 441740050, -50>>, <<6537253, 495135498, -50>>,
     <<6539307, 514770556, -50>>, <<6541357, 517570861, -50>>, <<6543403, 520362974, -50>>,
     <<6545445, 539875151, -50>>, <<6547483, 592738105, -50>>, <<6549517, 695485767, -50>>,
     <<6551547, 864556033, -50>>, <<6553574, 42549682, -50>>, <<6555596, 393198409, -50>>,
     <<6557614, 858914607, -50>>, <<6559629, 382017561, -50>>, <<6561640, 52217811, -50>>,
     <<6563646, 959134209, -50>>, <<6565649, 971069150, -50>>, <<6567649, 103718386, -50>>,
     <<6569644, 520171711, -50>>, <<6571636, 88462698, -50>>, <<6573623, 971503968, -50>>,
     <<6575607, 1037153264, -50>>, <<6577588, 300665056, -50>>, <<6579564, 924691198, -50>>,
     <<6581537, 776830632, -50>>, <<6583506, 945822799, -50>>, <<6585472, 372839159, -50>>,
     <<6587434, 146451112, -50>>, <<6589392, 281405159, -50>>, <<6591346, 792365339, -50>>,
     <<6593297, 620172021, -50>>, <<6595244, 853067986, -50>>, <<6597188, 431731729, -50>>,
     <<6599128, 444245355, -50>>, <<6601064, 904869700, -50>>, <<6602997, 754044909, -50>>,
     <<6604927, 5874674, -50>>, <<6606852, 821868627, -50>>, <<6608774, 1068491967, -50>>,
     <<6610693, 759616969, -50>>, <<6612608, 982781721, -50>>, <<6614520, 677965202, -50>>,
     <<6616428, 932555133, -50>>, <<6618333, 686381222, -50>>, <<6620234, 1026682996, -50>>,
     <<6622132, 893143049, -50>>, <<6624027, 299113033, -50>>, <<6625918, 331614190, -50>>,
     <<6627805, 1003854222, -50>>, <<6629690, 181485982, -50>>, <<6631571, 25058928, -50>>,
     <<6633448, 547568689, -50>>, <<6635322, 688199386, -50>>, <<6637193, 459807781, -50>>,
     <<6639060, 948923768, -50>>, <<6640925, 20783566, -50>>, <<6642785, 909264794, -50>>,
     <<6644643, 405726889, -50>>, <<6646497, 670171644, -50>>, <<6648348, 641309088, -50>>,
     <<6650196, 331525251, -50>>, <<6652040, 826882621, -50>>, <<6653881, 1065895140, -50>>,
     <<6655719, 1060754123, -50>>, <<6657554, 823586890, -50>>, <<6659386, 366457213, -50>>,
     <<6661214, 775107579, -50>>, <<6663039, 987734162, -50>>, <<6664861, 1016212729, -50>>,
     <<6666680, 872357247, -50>>, <<6668496, 567920312, -50>>, <<6670309, 114593573, -50>>,
     <<6672118, 597749976, -50>>, <<6673924, 955218711, -50>>, <<6675728, 124769273, -50>>,
     <<6677528, 265337339, -50>>, <<6679325, 314574240, -50>>, <<6681119, 283814651, -50>>,
     <<6682910, 184335170, -50>>, <<6684698, 27354718, -50>>, <<6686482, 897776746, -50>>,
     <<6688264, 659222339, -50>>, <<6690043, 396481539, -50>>, <<6691819, 120546436, -50>>,
     <<6693591, 916095190, -50>>, <<6695361, 646525120, -50>>, <<6697128, 396404012, -50>>,
     <<6698892, 176503200, -50>>, <<6700652, 1071281577, -50>>, <<6702410, 943918665, -50>>,
     <<6704165, 878765918, -50>>, <<6705917, 886379787, -50>>, <<6707666, 977263894, -50>>,
     <<6709413, 88127564, -50>>, <<6711156, 376853468, -50>>, <<6712896, 780047027, -50>>,
     <<6714634, 234262223, -50>>, <<6716368, 897227417, -50>>, <<6718100, 631652913, -50>>,
     <<6719829, 521424067, -50>>, <<6721555, 576634316, -50>>, <<6723278, 807327336, -50>>,
     <<6724999, 149755544, -50>>, <<6726716, 761347716, -50>>, <<6728431, 504516542, -50>>,
     <<6730143, 462851713, -50>>, <<6731852, 646152938, -50>>, <<6733558, 1064172086, -50>>,
     <<6735262, 652871669, -50>>, <<6736963, 495650625, -50>>, <<6738661, 602119148, -50>>,
     <<6740356, 981840823, -50>>, <<6742049, 570591094, -50>>, <<6743739, 451583040, -50>>,
     <<6745426, 634242199, -50>>, <<6747111, 54206860, -50>>, <<6748792, 868295651, -50>>,
     <<6750471, 938315059, -50>>, <<6752148, 273510665, -50>>, <<6753821, 1030567423, -50>>,
     <<6755492, 1071159000, -50>>, <<6757161, 404399004, -50>>, <<6758827, 113099430, -50>>,
     <<6760490, 206287295, -50>>, <<6762150, 692946733, -50>>, <<6763808, 508277437, -50>>,
     <<6765463, 734920410, -50>>, <<6767116, 307990927, -50>>, <<6768766, 310046100, -50>>,
     <<6770413, 749859668, -50>>, <<6772058, 562422259, -50>>, <<6773700, 830167118, -50>>,
     <<6775340, 488003070, -50>>, <<6776977, 618282069, -50>>, <<6778612, 155832156, -50>>,
     <<6780244, 182925004, -50>>, <<6781873, 708050698, -50>>, <<6783500, 665917976, -50>>,
     <<6785125, 64938129, -50>>, <<6786746, 1060967063, -50>>, <<6788366, 441112772, -50>>,
     <<6789983, 361153823, -50>>, <<6791597, 829346816, -50>>, <<6793209, 780168453, -50>>,
     <<6794819, 221799415, -50>>, <<6796426, 236124592, -50>>, <<6798030, 831249671, -50>>,
     <<6799632, 941501359, -50>>, <<6801232, 574911262, -50>>, <<6802829, 813216107, -50>>,
     <<6804424, 590632495, -50>>, <<6806016, 988824416, -50>>, <<6807606, 941936177, -50>>,
     <<6809194, 457818089, -50>>, <<6810779, 618026686, -50>>, <<6812362, 356599464, -50>>,
     <<6813942, 755022395, -50>>, <<6815520, 747262841, -50>>, <<6817096, 340995234, -50>>,
     <<6818669, 617601287, -50>>, <<6820240, 510944730, -50>>, <<6821809, 28596985, -50>>,
     <<6823375, 251837368, -50>>, <<6824939, 114427827, -50>>, <<6826500, 697580430, -50>>,
     <<6828059, 934990275, -50>>, <<6829616, 834061156, -50>>, <<6831171, 402163938, -50>>,
     <<6832723, 720378573, -50>>, <<6834273, 722268825, -50>>, <<6835821, 415107932, -50>>,
     <<6837366, 879878798, -50>>, <<6838909, 1050048707, -50>>, <<6840450, 932794989, -50>>,
     <<6841989, 535263377, -50>>, <<6843525, 938310017, -50>>, <<6845060, 1534359, -50>>,
     <<6846591, 953213930, -50>>, <<6848121, 579144447, -50>>, <<6849648, 1033800069, -50>>,
     <<6851174, 176657152, -50>>, <<6852697, 162129022, -50>>, <<6854217, 997115205, -50>>,
     <<6855736, 541001606, -50>>, <<6857252, 948111618, -50>>, <<6858767, 77771713, -50>>,
     <<6860279, 84246195, -50>>, <<6861788, 974286431, -50>>, <<6863296, 607131020, -50>>,
     <<6864802, 63215076, -50>>, <<6866305, 422944926, -50>>, <<6867806, 619214626, -50>>,
     <<6869305, 658631595, -50>>, <<6870802, 547774956, -50>>, <<6872297, 293195694, -50>>,
     <<6873789, 975158645, -50>>, <<6875280, 452675353, -50>>, <<6876768, 879697003, -50>>,
     <<6878255, 115179978, -50>>, <<6879739, 313020615, -50>>, <<6881221, 405862583, -50>>,
     <<6882701, 400064341, -50>>, <<6884179, 301957460, -50>>, <<6885655, 117846776, -50>>,
     <<6887128, 927752368, -50>>, <<6888600, 590442405, -50>>, <<6890070, 185884243, -50>>,
     <<6891537, 794019099, -50>>, <<6893003, 273536724, -50>>, <<6894466, 778068316, -50>>,
     <<6895928, 166252075, -50>>, <<6897387, 591667935, -50>>, <<6898844, 986644938, -50>>,
     <<6900300, 283486850, -50>>, <<6901753, 635697770, -50>>, <<6903204, 975531329, -50>>,
     <<6904654, 235216294, -50>>, <<6906101, 568182185, -50>>, <<6907546, 906608460, -50>>,
     <<6908990, 182650128, -50>>, <<6910431, 549663352, -50>>, <<6911870, 939754640, -50>>,
     <<6913308, 285006449, -50>>, <<6914743, 738702789, -50>>, <<6916177, 159136587, -50>>,
     <<6917608, 699544406, -50>>, <<6919038, 218171984, -50>>, <<6920465, 868208955, -50>>,
     <<6921891, 507854382, -50>>, <<6923315, 216509651, -50>>, <<6924736, 1073553130, -50>>,
     <<6926156, 937114814, -50>>, <<6927574, 886527399, -50>>, <<6928990, 927359105, -50>>,
     <<6930404, 1065155625, -50>>, <<6931817, 231698420, -50>>, <<6933227, 579972137, -50>>,
     <<6934635, 1041713786, -50>>, <<6936042, 548638326, -50>>, <<6937447, 179922439, -50>>,
     <<6938849, 1014720991, -50>>, <<6940250, 910941681, -50>>, <<6941649, 947696103, -50>>,
     <<6943047, 56590735, -50>>, <<6944442, 390436179, -50>>, <<6945835, 880796325, -50>>,
     <<6947227, 459213942, -50>>, <<6948617, 204694432, -50>>, <<6950005, 122480474, -50>>,
     <<6951391, 217793954, -50>>, <<6952775, 495836081, -50>>, <<6954157, 961787489, -50>>,
     <<6955538, 547066525, -50>>, <<6956917, 330554830, -50>>, <<6958294, 317371971, -50>>,
     <<6959669, 512617372, -50>>, <<6961042, 921370422, -50>>, <<6962414, 474948751, -50>>,
     <<6963784, 252133811, -50>>, <<6965152, 257945505, -50>>, <<6966518, 497384114, -50>>,
     <<6967882, 975430399, -50>>, <<6969245, 623303878, -50>>, <<6970606, 519688403, -50>>,
     <<6971965, 669506782, -50>>, <<6973323, 3920881, -50>>, <<6974678, 675299020, -50>>,
     <<6976032, 541023303, -50>>, <<6977384, 679682482, -50>>, <<6978735, 22362935, -50>>,
     <<6980083, 721357883, -50>>, <<6981430, 633974717, -50>>, <<6982775, 838727860, -50>>,
     <<6984119, 266629743, -50>>, <<6985460, 1069900019, -50>>, <<6986801, 32031063, -50>>,
     <<6988139, 378948131, -50>>, <<6989475, 1041591209, -50>>, <<6990810, 950882403, -50>>,
     <<6992144, 111467852, -50>>, <<6993475, 675459645, -50>>, <<6994805, 499984963, -50>>,
     <<6996133, 663378942, -50>>, <<6997460, 96475634, -50>>, <<6998784, 951317221, -50>>,
     <<7000108, 11219509, -50>>, <<7001429, 501932080, -50>>, <<7002749, 280478309, -50>>,
     <<7004067, 425090050, -50>>, <<7005383, 940240420, -50>>, <<7006698, 756643885, -50>>,
     <<7008011, 952481816, -50>>, <<7009323, 458435279, -50>>, <<7010633, 352652412, -50>>,
     <<7011941, 639523034, -50>>, <<7013248, 249678732, -50>>, <<7014553, 261218412, -50>>,
     <<7015856, 678482907, -50>>, <<7017158, 432055059, -50>>, <<7018458, 599985274, -50>>,
     <<7019757, 112824298, -50>>, <<7021054, 48590602, -50>>, <<7022349, 411544981, -50>>,
     <<7023643, 132190636, -50>>, <<7024935, 288498721, -50>>, <<7026225, 884682952, -50>>,
     <<7027514, 851199682, -50>>, <<7028802, 192231624, -50>>, <<7030087, 1059429751, -50>>,
     <<7031372, 235720607, -50>>, <<7032654, 946466440, -50>>, <<7033935, 1048305220, -50>>,
     <<7035215, 545343471, -50>>, <<7036493, 515414532, -50>>, <<7037769, 962594973, -50>>,
     <<7039044, 817204672, -50>>, <<7040318, 83290534, -50>>, <<7041589, 912368386, -50>>,
     <<7042860, 87230284, -50>>, <<7044128, 833104644, -50>>, <<7045395, 1006496249, -50>>,
     <<7046661, 611379089, -50>>, <<7047925, 725454604, -50>>, <<7049188, 278926286, -50>>,
     <<7050449, 349467036, -50>>, <<7051708, 940993769, -50>>, <<7052966, 983667475, -50>>,
     <<7054223, 481376939, -50>>, <<7055478, 511738808, -50>>, <<7056732, 4872181, -50>>,
     <<7057984, 38365977, -50>>, <<7059234, 616053527, -50>>, <<7060483, 668012639, -50>>,
     <<7061731, 198049311, -50>>, <<7062977, 283697796, -50>>, <<7064221, 928737021, -50>>,
     <<7065464, 1063190647, -50>>, <<7066706, 690810782, -50>>, <<7067946, 889078046, -50>>,
     <<7069185, 587976162, -50>>, <<7070422, 864959309, -50>>, <<7071658, 649984897, -50>>,
     <<7072892, 1020480917, -50>>, <<7074125, 906378711, -50>>, <<7075357, 311338503, -50>>,
     <<7076587, 312749463, -50>>, <<7077815, 914246113, -50>>, <<7079042, 1045708392, -50>>,
     <<7080268, 710745365, -50>>, <<7081492, 986695277, -50>>, <<7082715, 803400143, -50>>,
     <<7083937, 164431279, -50>>, <<7085157, 147089361, -50>>, <<7086375, 754920831, -50>>,
     <<7087592, 917717959, -50>>, <<7088808, 639002546, -50>>, <<7090022, 996025981, -50>>,
     <<7091235, 918543827, -50>>, <<7092447, 410041348, -50>>, <<7093657, 547733564, -50>>,
     <<7094866, 261339839, -50>>, <<7096073, 628051225, -50>>, <<7097279, 577563229, -50>>,
     <<7098484, 113301334, -50>>, <<7099687, 312421056, -50>>, <<7100889, 104582525, -50>>,
     <<7102089, 566917836, -50>>, <<7103288, 629063804, -50>>, <<7104486, 294387493, -50>>,
     <<7105682, 639986263, -50>>, <<7106877, 595462358, -50>>, <<7108071, 164148423, -50>>,
     <<7109263, 423107562, -50>>, <<7110454, 301907914, -50>>, <<7111643, 877589999, -50>>,
     <<7112832, 5957654, -50>>, <<7114018, 911512673, -50>>, <<7115204, 376294792, -50>>,
     <<7116388, 551041806, -50>>, <<7117571, 365255024, -50>>, <<7118752, 895908443, -50>>,
     <<7119932, 1072481496, -50>>, <<7121111, 898184577, -50>>, <<7122289, 376217264, -50>>,
     <<7123465, 583510194, -50>>, <<7124640, 449499633, -50>>, <<7125813, 1051094829, -50>>,
     <<7126986, 243968933, -50>>, <<7128157, 178751815, -50>>, <<7129326, 858579171, -50>>,
     <<7130495, 139092567, -50>>, <<7131662, 170890428, -50>>, <<7132827, 957077147, -50>>,
     <<7133992, 353263122, -50>>, <<7135155, 510015755, -50>>, <<7136317, 356666721, -50>>,
     <<7137477, 970021141, -50>>, <<7138637, 205648503, -50>>, <<7139795, 214075476, -50>>,
     <<7140951, 998335007, -50>>, <<7142107, 413966375, -50>>, <<7143261, 611466166, -50>>,
     <<7144414, 520095561, -50>>, <<7145566, 142847668, -50>>, <<7146716, 556447568, -50>>,
     <<7147865, 690126887, -50>>, <<7149013, 546849309, -50>>, <<7150160, 129568796, -50>>,
     <<7151305, 514971454, -50>>, <<7152449, 632250104, -50>>, <<7153592, 484329795, -50>>,
     <<7154734, 74126021, -50>>, <<7155874, 478286591, -50>>, <<7157013, 625966191, -50>>,
     <<7158151, 520051905, -50>>, <<7159288, 163421425, -50>>, <<7160423, 632684922, -50>>,
     <<7161557, 856959608, -50>>, <<7162690, 839095254, -50>>, <<7163822, 581932401, -50>>,
     <<7164953, 88302405, -50>>, <<7166082, 434769295, -50>>, <<7167210, 550404346, -50>>,
     <<7168337, 438011586, -50>>, <<7169463, 100386011, -50>>, <<7170587, 614055452, -50>>,
     <<7171710, 908055136, -50>>, <<7172832, 985153200, -50>>, <<7173953, 848108903, -50>>,
     <<7175073, 499672668, -50>>, <<7176191, 1016327937, -50>>, <<7177309, 253323918, -50>>,
     <<7178425, 360868388, -50>>, <<7179540, 267934962, -50>>, <<7180653, 1050972253, -50>>,
     <<7181766, 565194783, -50>>, <<7182877, 960775792, -50>>, <<7183988, 92912683, -50>>,
     <<7185097, 111761644, -50>>, <<7186204, 1019986749, -50>>, <<7187311, 672759985, -50>>,
     <<7188417, 146470415, -50>>, <<7189521, 517498734, -50>>, <<7190624, 714733663, -50>>,
     <<7191726, 740797452, -50>>, <<7192827, 598304093, -50>>, <<7193927, 289859353, -50>>,
     <<7195025, 891802631, -50>>, <<7196123, 259239701, -50>>, <<7197219, 542235512, -50>>,
     <<7198314, 669621450, -50>>, <<7199408, 643962675, -50>>, <<7200501, 467816323, -50>>,
     <<7201593, 143731546, -50>>, <<7202683, 747991365, -50>>, <<7203773, 135645409, -50>>,
     <<7204861, 456702714, -50>>, <<7205948, 639938991, -50>>, <<7207034, 687863950, -50>>,
     <<7208119, 602979514, -50>>, <<7209203, 387779845, -50>>, <<7210286, 44751382, -50>>,
     <<7211367, 650114691, -50>>, <<7212448, 58857206, -50>>, <<7213527, 420926025, -50>>,
     <<7214605, 665035176, -50>>, <<7215682, 793632942, -50>>, <<7216758, 809160069, -50>>,
     <<7217833, 714049796, -50>>, <<7218907, 510727889, -50>>, <<7219980, 201612668, -50>>,
     <<7221051, 862856860, -50>>, <<7222122, 349380340, -50>>, <<7223191, 811062924, -50>>,
     <<7224260, 102809805, -50>>, <<7225327, 374486182, -50>>, <<7226393, 554724515, -50>>,
     <<7227458, 645891854, -50>>, <<7228522, 650348042, -50>>, <<7229585, 570445748, -50>>,
     <<7230647, 408530491, -50>>, <<7231708, 166940673, -50>>, <<7232767, 921749430, -50>>,
     <<7233826, 527797366, -50>>, <<7234884, 61143522, -50>>, <<7235940, 597839939, -50>>,
     <<7236995, 1066448029, -50>>, <<7238050, 395522259, -50>>, <<7239103, 734835648, -50>>,
     <<7240155, 1012928850, -50>>, <<7241207, 158335655, -50>>, <<7242257, 320808487, -50>>,
     <<7243306, 428867488, -50>>, <<7244354, 484767844, -50>>, <<7245401, 490757983, -50>>,
     <<7246447, 449079606, -50>>, <<7247492, 361967710, -50>>, <<7248536, 231650621, -50>>,
     <<7249579, 60350013, -50>>, <<7250620, 924022764, -50>>, <<7251661, 677393683, -50>>,
     <<7252701, 396406482, -50>>, <<7253740, 83256507, -50>>, <<7254777, 813874409, -50>>,
     <<7255814, 442958874, -50>>, <<7256850, 46427595, -50>>, <<7257884, 700191826, -50>>,
     <<7258918, 258930930, -50>>, <<7259950, 872285180, -50>>, <<7260982, 394921185, -50>>,
     <<7262012, 976466512, -50>>, <<7263042, 471575117, -50>>, <<7264070, 1029861960, -50>>,
     <<7265098, 505968442, -50>>, <<7266124, 1049497018, -50>>, <<7267150, 515076629, -50>>,
     <<7268174, 1052297323, -50>>
  >>

\* the float64 nearest to ln(2^j), j = 0 .. 30
LnPow2 ==
  <<
     <<0, 0, 0>>, <<5814539, 1056586223, -53>>, <<5814539, 1056586223, -52>>,
     <<4360904, 1060875123, -51>>, <<5814539, 1056586223, -51>>, <<7268174, 1052297323, -51>>,
     <<4360904, 1060875123, -50>>, <<5087722, 521859761, -50>>, <<5814539, 1056586223, -50>>,
     <<6541357, 517570861, -50>>, <<7268174, 1052297323, -50>>, <<7994992, 513281961, -50>>,
     <<4360904, 1060875123, -49>>, <<4724313, 791367442, -49>>, <<5087722, 521859761, -49>>,
     <<5451131, 252352080, -49>>, <<5814539, 1056586223, -49>>, <<6177948, 787078542, -49>>,
     <<6541357, 517570861, -49>>, <<6904766, 248063180, -49>>, <<7268174, 1052297323, -49>>,
     <<7631583, 782789642, -49>>, <<7994992, 513281961, -49>>, <<8358401, 243774280, -49>>,
     <<4360904, 1060875123, -48>>, <<4542609, 389250371, -48>>, <<4724313, 791367442, -48>>,
     <<4906018, 119742690, -48>>, <<5087722, 521859761, -48>>, <<5269426, 923976833, -48>>,
     <<5451131, 252352080, -48>>
  >>

\* the float64 nearest to ln(3 * 2^j), j = 0 .. 29
LnThreePow2 ==
  <<
     <<4607913, 984417035, -52>>, <<7515183, 975839234, -52>>, <<5211226, 1020501629, -51>>,
     <<6664861, 1016212729, -51>>, <<8118496, 1011923829, -51>>, <<4786065, 1040688376, -50>>,
     <<5512883, 501673014, -50>>, <<6239700, 1036399476, -50>>, <<6966518, 497384114, -50>>,
     <<7693335, 1032110576, -50>>, <<4210076, 783418519, -49>>, <<4573485, 513910838, -49>>,
     <<4936894, 244403157, -49>>, <<5300302, 1048637300, -49>>, <<5663711, 779129619, -49>>,
     <<6027120, 509621938, -49>>, <<6390529, 240114257, -49>>, <<6753937, 1044348399, -49>>,
     <<7117346, 774840718, -49>>, <<7480755, 505333037, -49>>, <<7844164, 235825356, -49>>,
     <<8207572, 1040059499, -49>>, <<4285490, 922146821, -48>>, <<4467195, 250522069, -48>>,
     <<4648899, 652639140, -48>>, <<4830603, 1054756212, -48>>, <<5012308, 383131459, -48>>,
     <<5194012, 785248530, -48>>, <<5375717, 113623778, -48>>, <<5557421, 515740849, -48>>
  >>

\* the entry of a price past LnTable: of a power of 2, or of 3 times one;
\* no other price past LnTable has a logarithm here
LnOfLarge(p) ==
  CASE p = 2^(ILen(p) - 1) -> LnPow2[ILen(p)]
    [] p = 3 * 2^(ILen(p) - 2) -> LnThreePow2[ILen(p) - 1]

LnOf(p) == IF p <= Len(LnTable) THEN LnTable[p] ELSE LnOfLarge(p)

\* np.log of one price: -inf at 0 and nan below 0 (the warnings are ignored).
\* The prices are integers: 1 .. 1024, 2^j and 3 * 2^j below 2^31 have their
\* logarithm; of any other price the value is not defined, and evaluating
\* it is an error.
np_log(p) ==
  IF p > 0 THEN Eval1(LAMBDA t : MkFin(FALSE, <<t[1], t[2]>>, t[3]), LnOf(p))
  ELSE IF p = 0 THEN NInf ELSE NaN

RECURSIVE SumLoop(_, _, _, _, _)
\* res += xs[j] for j = lo .. hi, in this order
SumLoop(p, xs, lo, hi, res0) ==
  Eval1(LAMBDA res : IF lo > hi THEN res
                     ELSE SumLoop(p, xs, lo + 1, hi, FAdd(p, res, xs[lo])),
        res0)

RECURSIVE SumStride(_, _, _, _, _)
\* res += xs[j] for j = lo, lo + 8, ... below hi
SumStride(p, xs, lo, hi, res0) ==
  Eval1(LAMBDA res : IF lo >= hi THEN res
                     ELSE SumStride(p, xs, lo + 8, hi, FAdd(p, res, xs[lo])),
        res0)

\* the 8 strided partial sums r of a block combined, then its last values
SumBlock(p, xs, off, n, full, r) ==
  SumLoop(p, xs, off + full + 1, off + n,
          FAdd(p, FAdd(p, FAdd(p, r[1], r[2]), FAdd(p, r[3], r[4])),
                  FAdd(p, FAdd(p, r[5], r[6]), FAdd(p, r[7], r[8]))))

RECURSIVE PairwiseSum(_, _, _, _)
\* numpy's pairwise summation of the n values after position off: a plain
\* loop under 8 values, 8 strided partial sums up to a block of 128, two
\* halves above
PairwiseSum(p, xs, off, n) ==
  IF n < 8 THEN SumLoop(p, xs, off + 1, off + n, Zero)
  ELSE IF n <= 128
  THEN Eval1(LAMBDA r : SumBlock(p, xs, off, n, n - (n % 8), r),
             [j \in 1..8 |->
                SumStride(p, xs, off + j + 8, off + n - (n % 8) + 1, xs[off + j])]
               \o <<>>)
  ELSE Eval1(LAMBDA n2 : FAdd(p, PairwiseSum(p, xs, off, n2),
                                 PairwiseSum(p, xs, off + n2, n - n2)),
             (n \div 2) - ((n \div 2) % 8))

\* np.add.reduce of a float array of precision p
np_sum(p, xs) == PairwiseSum(p, xs, 0, Len(xs))

\* arr.mean(): the sum over the count; nan (0/0) for an empty array
np_mean(p, xs) == FDiv(p, np_sum(p, xs), FromInt(p, Len(xs)))

\* abs(xs - mean)**2
SquaredDeviations(xs, mean) ==
  [j \in 1..Len(xs) |-> Eval1(LAMBDA d : FMul(d, d), FSub(P64, xs[j], mean))] \o <<>>

\* np.std with ddof = 1: the sample standard deviation
np_std_ddof1(xs) ==
  Eval1(LAMBDA sq : np_sqrt(FDiv(P64, np_sum(P64, sq),
                                 FromInt(P64, IF Len(xs) > 0 THEN Len(xs) - 1 ELSE 0))),
        SquaredDeviations(xs, np_mean(P64, xs)))

\* np.std with the default ddof = 0: sqrt(mean(abs(x - x.mean())**2))
np_std(xs) ==
  Eval1(LAMBDA sq : np_sqrt(np_mean(P64, sq)),
        SquaredDeviations(xs, np_mean(P64, xs)))

\* the cast of a float64 to float32
ToFloat32(x0) ==
  Eval1(LAMBDA x : IF IsFin(x) THEN RoundTo(P32, x.neg, Mant(x), x.e, FALSE) ELSE x,
        x0)

\* np.zeros(n, dtype=np.float32)
np_zeros(n) == [j \in 1..n |-> Zero]

(***************************************************************************)
(* Frames and slices                                                       *)
(***************************************************************************)
Min(a, b) == IF a < b THEN a ELSE b
Max(a, b) == IF a > b THEN a ELSE b

\* a slice bound of Python: a negative bound counts from the end, and both
\* ends are clamped to 0 .. n
SliceBound(n, b) == IF b < 0 THEN Max(0, n + b) ELSE Min(b, n)

\* frame.iloc[start:stop]: the rows at positions start .. stop - 1
iloc(frame, start, stop) ==
  SubSeq(frame, SliceBound(Len(frame), start) + 1, SliceBound(Len(frame), stop))

\* the rows on or after d: the next trading day stands in for a missing one
Matches_onOrAfter(frame, d) == {p \in 0..(Len(frame) - 1) : frame[p + 1].Date >= d}

\* positions of the rows selected by frame.loc[frame['Date'] == d]
Matches(frame, d) == {p \in 0..(Len(frame) - 1) : frame[p + 1].Date = d}

SetMin(S) == CHOOSE a \in S : \A b \in S : a <= b

\* the window moved up by one row: it ends on the valuation date
HistoryData_lookahead(frame, d, m) ==
  Eval1(LAMBDA rows : [j \in 1..Len(rows) |-> rows[j].AdjClose],
        iloc(frame, d - m + 1, d + 1))

\* list(S_all.iloc[date_index-M_value:date_index, ]['Adj Close'])
HistoryData(frame, d, m) ==
  Eval1(LAMBDA rows : [j \in 1..Len(rows) |-> rows[j].AdjClose],
        iloc(frame, d - m, d))

\* np.log(history_data)
LogHistoryData(h) == [j \in 1..Len(h) |-> np_log(h[j])]

\* log_history_data[1:] - log_history_data[:-1]
LogReturn(lg) == [j \in 1..(Len(lg) - 1) |-> FSub(P64, lg[j + 1], lg[j])]

\* the operands of the division exchanged
SigmaOf_swapped(lr, step) == ToFloat32(FDiv(P64, np_sqrt(step), np_std(lr)))

\* np.std(log_return) / np.sqrt(dt), stored into a float32 array
SigmaOf(lr, step) == ToFloat32(FDiv(P64, np_std(lr), np_sqrt(step)))

\* the sigma the loop body computes for the date at position d
Estimate(frame, d, m, step) ==
  SigmaOf(LogReturn(LogHistoryData(HistoryData(frame, d, m))), step)

(***************************************************************************)
(* The notebook's parameters                                               *)
(***************************************************************************)
M == <<21, 63, 252>>

DateLo == 20230809
DateHi == 20231109

\* dt = 1/252
dt0 == IntTrueDiv(1, 252)

\* ir[(ir['Date'] >= '2023-08-09') & (ir['Date'] <= '2023-11-09')]['Date'].values
RECURSIVE ActualDatesTo(_, _)
ActualDatesTo(rates, n) ==
  IF n = 0 THEN <<>>
  ELSE LET r == rates[n]
       IN  IF r.Date >= DateLo /\ r.Date <= DateHi
           THEN Append(ActualDatesTo(rates, n - 1), r.Date)
           ELSE ActualDatesTo(rates, n - 1)

ActualDates(rates) == ActualDatesTo(rates, Len(rates))

(***************************************************************************)
(* The data files: the inputs explored                                     *)
(***************************************************************************)
\* Trading day k, counted from 2022-08-01, as a date: 28 days to a month.
TradingDay(k) ==
  LET mi == 7 + (k \div 28)
  IN  10000 * (2022 + (mi \div 12)) + 100 * ((mi % 12) + 1) + ((k % 28) + 1)

LoDay == CHOOSE k \in 0..600 : TradingDay(k) = DateLo
HiDay == CHOOSE k \in 0..600 : TradingDay(k) = DateHi

\* Number of price shapes drawn, and of consecutive valuation dates.
NPatterns == 3
NDates == 2

\* Adjusted close of trading day k under shape pat: flat, a cycle of six
\* closes, a close that doubles every day for 21 days from 1 on (the 21
\* days before the first valuation date are one such run) and falls back.
Pattern(pat, k) ==
  CASE pat = 0 -> 100
    [] pat = 1 -> <<100, 101, 103, 106, 104, 102>>[(k % 6) + 1]
    [] pat = 2 -> 2^((k + 7) % 22)
    [] OTHER -> 99 + (k % pat)

\* The price file: the rows of trading days first .. last without day gap,
\* the close of day bad replaced by badval.
PriceFrame(first, last, gap, pat, bad, badval) ==
  LET skip == gap >= first /\ gap <= last
      n == last - first + 1 - (IF skip THEN 1 ELSE 0)
      day(j) == IF skip /\ first + j - 1 >= gap THEN first + j ELSE first + j - 1
  IN  [j \in 1..n |->
         [Date |-> TradingDay(day(j)),
          AdjClose |-> IF day(j) = bad THEN badval ELSE Pattern(pat, day(j))]]

\* The rate file: one row per day of days.
RateFrame(days) ==
  [j \in 1..Len(days) |-> [Date |-> TradingDay(days[j]), Rate |-> IntTrueDiv(300 + (days[j] % 7), 100)]]

\* Rows of history before the first valuation date.
Offsets == {0, 1, 20, 21, 22, 38, 63, 251, 252}

\* Days the price file runs on after the first valuation date.
Tails == {NDates - 1, HiDay - LoDay + 1}

Gaps == {-1, LoDay, LoDay + 1}

Bads == {<<-1, 0>>, <<LoDay - 1, 0>>, <<LoDay - 1, -7>>, <<LoDay, 0>>}

RateDays ==
  { <<LoDay - 1>> \o [j \in 1..NDates |-> LoDay + j - 1] \o <<HiDay + 1>>,
    <<LoDay - 1, LoDay, HiDay, HiDay + 1>>,
    <<LoDay - 1, HiDay + 1>> }

(***************************************************************************)
(* The cell                                                                *)
(***************************************************************************)
Init ==
  /\ \E off \in Offsets, tail \in Tails, gap \in Gaps,
        pat \in 0..(NPatterns - 1), bad \in Bads :
       S_all = PriceFrame(LoDay - off, LoDay + tail, gap, pat, bad[1], bad[2])
  /\ \E days \in RateDays : ir = RateFrame(days)
  /\ dt = dt0
  /\ actual_dates = ActualDates(ir)
  /\ M_pos = 0
  /\ M_value = 0
  /\ sigma = <<>>
  /\ i = 0
  /\ date = 0
  /\ date_index = 0
  /\ history_data = <<>>
  /\ log_return = <<>>
  /\ pc = "for_M"
  /\ err = ""
  /\ out = <<>>
  /\ writes = <<>>
  /\ n_est = 0

\* the window assigned back to S_all instead of copied out of it
InputsWindowed ==
  /\ S_all' = IF pc = "body"
               THEN iloc(S_all, date_index - M_value, date_index)
               ELSE S_all
  /\ UNCHANGED <<ir, dt, actual_dates>>

\* The loop leaves its inputs alone: it assigns none of them, and the window
\* is copied out of S_all (list(...)) before np.log makes a new array of it.
InputsKept == UNCHANGED inputs

\* np.zeros hoisted out of the loop: the array of the previous M is reused
StartM_reuse ==
  /\ pc = "for_M"
  /\ M_pos < Len(M)
  /\ M_pos' = M_pos + 1
  /\ M_value' = M[M_pos + 1]
  /\ sigma' = IF M_pos = 0 THEN np_zeros(Len(actual_dates)) ELSE sigma
  /\ i' = 0
  /\ writes' = <<>>
  /\ pc' = "for_date"
  /\ InputsKept
  /\ UNCHANGED <<date, date_index, history_data, log_return, err, out, n_est>>

\* for M_value in M: sigma = np.zeros(len(actual_dates), dtype=np.float32)
StartM ==
  /\ pc = "for_M"
  /\ M_pos < Len(M)
  /\ M_pos' = M_pos + 1
  /\ M_value' = M[M_pos + 1]
  /\ sigma' = np_zeros(Len(actual_dates))
  /\ i' = 0
  /\ writes' = <<>>
  /\ pc' = "for_date"
  /\ InputsKept
  /\ UNCHANGED <<date, date_index, history_data, log_return, err, out, n_est>>

\* for i, date in enumerate(actual_dates):
\*     date_index = S_all.loc[S_all['Date'] == date].index[0]
\* index[0] of an empty selection raises IndexError, which ends the cell.
Lookup ==
  /\ pc = "for_date"
  /\ i < Len(actual_dates)
  /\ date' = actual_dates[i + 1]
  /\ LET found == Matches(S_all, actual_dates[i + 1])
     IN  IF found = {}
         THEN /\ pc' = "error"
              /\ err' = "IndexError"
              /\ UNCHANGED date_index
         ELSE /\ date_index' = SetMin(found)
              /\ pc' = "body"
              /\ UNCHANGED err
  /\ InputsKept
  /\ UNCHANGED <<M_pos, M_value, sigma, i, history_data, log_return, out,
                 writes, n_est>>

\* history_data = ...; log_history_data = ...; log_return = ...
\* sigma[i] = np.std(log_return) / np.sqrt(dt)
EstimateStep ==
  /\ pc = "body"
  /\ \E h \in {HistoryData(S_all, date_index, M_value)} :
       \E lr \in {LogReturn(LogHistoryData(h))} :
         /\ history_data' = h
         /\ log_return' = lr
         /\ sigma' = [sigma EXCEPT ![i + 1] = SigmaOf(lr, dt)]
  /\ i' = i + 1
  /\ writes' = Append(writes, i)
  /\ n_est' = n_est + 1
  /\ pc' = "for_date"
  /\ InputsKept
  /\ UNCHANGED <<M_pos, M_value, date, date_index, err, out>>

\* print(f"M: {M_value} - sigma ({actual_dates[0]}): {sigma[0]}, ...")
\* actual_dates[0] of an empty array raises IndexError.
PrintSummary ==
  /\ pc = "for_date"
  /\ i = Len(actual_dates)
  /\ IF Len(actual_dates) = 0
     THEN /\ pc' = "error"
          /\ err' = "IndexError"
          /\ UNCHANGED out
     ELSE /\ out' = Append(out,
                      [M |-> M_value,
                       first_date |-> actual_dates[1],
                       first |-> sigma[1],
                       last_date |-> actual_dates[Len(actual_dates)],
                       last |-> sigma[Len(sigma)],
                       average |-> np_mean(P32, sigma)])
          /\ pc' = "for_M"
          /\ UNCHANGED err
  /\ InputsKept
  /\ UNCHANGED <<M_pos, M_value, sigma, i, date, date_index, history_data,
                 log_return, writes, n_est>>

\* the for loop over M is exhausted: the cell ends
Finish ==
  /\ pc = "for_M"
  /\ M_pos = Len(M)
  /\ pc' = "done"
  /\ InputsKept
  /\ UNCHANGED <<M_pos, M_value, sigma, i, date, date_index, history_data,
                 log_return, err, out, writes, n_est>>

Next == StartM \/ Lookup \/ EstimateStep \/ PrintSummary \/ Finish

Spec == Init /\ [][Next]_vars

(***************************************************************************)
(* Properties                                                              *)
(***************************************************************************)
\* Largest factor the prices are multiplied by.
MaxScale == 3

\* The loop body has just stored sigma[i - 1]: date, date_index,
\* history_data and log_return are those of that estimation.
JustEstimated == pc = "for_date" /\ i > 0

\* The sigma stored by the last estimation.
LastSigma == sigma[i]

AllPositive(h) == \A j \in 1..Len(h) : h[j] > 0

\* frame with every price multiplied by c
ScaleFrame(frame, c) ==
  [j \in 1..Len(frame) |-> [frame[j] EXCEPT !.AdjClose = c * @]]

\* C1: with at least M rows before the valuation date (date_index >= M),
\* the window is exactly the M prices at positions date_index - M ..
\* date_index - 1, in order; the row of the valuation date is at position
\* date_index, outside the window.
C1_WindowIsTheMPriorPrices ==
  (JustEstimated /\ date_index >= M_value) =>
    /\ Len(history_data) = M_value
    /\ \A j \in 1..M_value :
         history_data[j] = S_all[(date_index - M_value + j - 1) + 1].AdjClose
    /\ S_all[date_index + 1].Date = date

C1_Witness ==
  /\ JustEstimated
  /\ date_index >= M_value
  /\ M_value = 252
  /\ S_all[date_index + 1].AdjClose = 0
  /\ IsFin(LastSigma)

\* C2 (as claimed): with fewer than M rows before the valuation date
\* (date_index < M) no sigma is stored for the date.
C2_NoSigmaOnShortHistory == ~(JustEstimated /\ date_index < M_value)

\* C3: a valuation date that is not in the price series ends the cell with
\* an error at the lookup, nothing runs after it, its sigma entry is never
\* assigned, and every sigma that is assigned is for a date of the series,
\* estimated at the row of that very date.
C3_MissingDateAborts ==
  /\ \A j \in 1..Len(writes) : Matches(S_all, actual_dates[writes[j] + 1]) # {}
  /\ (pc = "body" \/ JustEstimated) => S_all[date_index + 1].Date = date
  /\ (pc = "error" /\ Len(actual_dates) > 0) =>
       /\ err = "IndexError"
       /\ date = actual_dates[i + 1]
       /\ Matches(S_all, date) = {}
       /\ \A j \in 1..Len(writes) : writes[j] # i
       /\ sigma[i + 1] = Zero
       /\ ~ENABLED Next

C3_Witness ==
  /\ pc = "error"
  /\ Len(actual_dates) > 0
  /\ i > 0
  /\ M_pos = 1

\* C4 (as claimed): no sigma is stored from a window of M prices that
\* holds a price that is zero or negative.
C4_NoSigmaOnNonPositivePrice ==
  ~(JustEstimated /\ date_index >= M_value /\ ~AllPositive(history_data))

\* C5: over a full window of M positive prices there are M - 1 returns
\* ln(p[j+1]) - ln(p[j]); their mean is their sum over M - 1; the variance
\* is the sum of the squared deviations from that mean divided by M - 1,
\* the number of returns; the sigma stored is the root of that variance
\* divided by sqrt(dt), every operation a float64 one and the sums in
\* numpy's order.
C5_PopulationStd ==
  (JustEstimated /\ date_index >= M_value /\ AllPositive(history_data)) =>
    /\ Len(log_return) = M_value - 1
    /\ \A j \in 1..(M_value - 1) :
         log_return[j] = FSub(P64, np_log(history_data[j + 1]),
                                   np_log(history_data[j]))
    /\ LastSigma.k = "fin"
    /\ \E count \in {FromInt(P64, M_value - 1)} :
         \E mean \in {FDiv(P64, np_sum(P64, log_return), count)} :
           \E var \in {FDiv(P64, np_sum(P64, SquaredDeviations(log_return, mean)),
                            count)} :
             LastSigma = ToFloat32(FDiv(P64, np_sqrt(var), np_sqrt(dt)))

C5_Witness ==
  /\ JustEstimated
  /\ date_index >= M_value
  /\ AllPositive(history_data)
  /\ M_value = 63
  /\ ~IsZero(LastSigma)

\* C6: when every price of the series is the same positive constant and
\* at least M rows precede the valuation date, sigma is exactly 0, whatever
\* the constant is.
C6_ConstantSeriesGivesZero ==
  (/\ JustEstimated
   /\ date_index >= M_value
   /\ S_all[1].AdjClose > 0
   /\ \A j \in 1..Len(S_all) : S_all[j].AdjClose = S_all[1].AdjClose)
  => /\ LastSigma = Zero
     /\ \A c \in 2..MaxScale :
          Estimate(ScaleFrame(S_all, c), date_index, M_value, dt) = Zero

C6_Witness ==
  /\ JustEstimated
  /\ date_index >= M_value
  /\ M_value = 252
  /\ S_all[1].AdjClose > 0
  /\ \A j \in 1..Len(S_all) : S_all[j].AdjClose = S_all[1].AdjClose

\* the window is full and its prices are positive, and the prices times c
\* give the float32 s
ScaledGives(c, s) ==
  /\ JustEstimated
  /\ date_index >= M_value
  /\ AllPositive(history_data)
  /\ Estimate(ScaleFrame(S_all, c), date_index, M_value, dt) = s

\* C7 (as claimed): multiplying every price by c > 0 leaves the sigma
\* stored for a date with a full window of positive prices unchanged: the
\* same float32.  (The logarithms of the scaled prices are rounded on their
\* own, and the returns differ in their last bits.)
C7_ScaleInvariant ==
  (JustEstimated /\ date_index >= M_value /\ AllPositive(history_data)) =>
    \A c \in 2..MaxScale : ScaledGives(c, LastSigma)

\* C8 (as claimed): every sigma entry that has been assigned is a number,
\* and it is not negative.
C8_SigmaNonNegative ==
  \A j \in 1..Len(writes) :
    sigma[writes[j] + 1].k = "fin" /\ ~sigma[writes[j] + 1].neg

\* C9: no step of the sweep changes the price series, the rate curve, the
\* valuation dates or dt.
C9_InputsUnchanged == [][inputs' = inputs]_vars

C9_Witness ==
  /\ pc = "done"
  /\ n_est = Len(M) * Len(actual_dates)
  /\ n_est > 0

FirstPositions(n) == [j \in 1..n |-> j - 1]

Summary(m) ==
  [M |-> m,
   first_date |-> actual_dates[1],
   first |-> sigma[1],
   last_date |-> actual_dates[Len(actual_dates)],
   last |-> sigma[Len(sigma)],
   average |-> np_mean(P32, sigma)]

C10_Ended == pc = "done" \/ pc = "error"

\* How far the sweep is: it grows with every step and is bounded.
C10_Progress ==
  M_pos * (2 * Len(actual_dates) + 2) + 2 * i
    + (CASE pc = "for_date" -> 0
         [] pc = "body" -> 1
         [] pc = "for_M" -> 1
         [] OTHER -> 2)

C10_Order ==
  /\ Len(out) <= Len(M)
  /\ \A j \in 1..Len(out) : out[j].M = M[j]
  /\ pc \in {"for_date", "body"} =>
       /\ M_pos = Len(out) + 1
       /\ M_value = M[M_pos]
       /\ Len(sigma) = Len(actual_dates)
       /\ writes = FirstPositions(i)
       /\ \A j \in (i + 1)..Len(sigma) : sigma[j] = Zero
       /\ n_est = (M_pos - 1) * Len(actual_dates) + i
  /\ pc = "for_M" =>
       /\ Len(out) = M_pos
       /\ n_est = M_pos * Len(actual_dates)
       /\ M_pos > 0 => /\ writes = FirstPositions(Len(actual_dates))
                       /\ out[M_pos] = Summary(M[M_pos])
  /\ pc = "done" =>
       /\ Len(out) = Len(M)
       /\ n_est = Len(M) * Len(actual_dates)
  /\ ~C10_Ended =>          \* the loop body has no guard but its place
       pc = "body" \/ ENABLED (StartM \/ Lookup \/ PrintSummary \/ Finish)
  /\ C10_Progress <= (Len(M) + 1) * (2 * Len(actual_dates) + 2)

C10_Step ==
  /\ C10_Progress' > C10_Progress
  /\ out' # out => /\ i = Len(actual_dates)
                   /\ Len(writes) = Len(actual_dates)
                   /\ out' = Append(out, Summary(M_value))
                   /\ sigma' = sigma
  /\ M_value' # M_value => /\ M_pos = Len(out)
                           /\ sigma' = [j \in 1..Len(actual_dates) |-> Zero]
  /\ (sigma' # sigma /\ M_value' = M_value) =>
       /\ date = actual_dates[i + 1]
       /\ i' = i + 1
       /\ \A j \in 1..Len(sigma) : j # i + 1 => sigma'[j] = sigma[j]

\* C10: the lookbacks are taken in list order; each starts from a fresh
\* all-zero sigma array as long as the valuation dates, assigns the positions
\* once each in date order, and prints its summary after the last date and
\* before the next lookback starts; every step makes progress towards the
\* end, a step is possible until the cell has ended, and without an error
\* it ends after |M| x |valuation dates| estimations.
C10_SweepOrder == [](C10_Order) /\ [][C10_Step]_vars

C10_Witness ==
  /\ pc = "done"
  /\ Len(out) = Len(M)
  /\ Len(actual_dates) = NDates
  /\ out[1].first # out[Len(M)].first

====
